---- MODULE Spec2Model ----
(***************************************************************************)
(* State-machine model of the PTY session server, src/mcp-shell-server.js. *)
(*                                                                         *)
(* The server is one Node.js event loop: every tool handler and every PTY  *)
(* callback runs to completion, so each is one atomic action.  A handler's *)
(* reply (its structuredContent) is an operator of the state the handler   *)
(* starts in and of its arguments, named ...Reply.                         *)
(*                                                                         *)
(* Encoding of JavaScript values:                                          *)
(*   - a string is a sequence; the empty string is << >>, the n-th value   *)
(*     returned by randomUUID() is <<n>>;                                  *)
(*   - null is Null (<< >>), a number v in a nullable field is Some(v);    *)
(*   - an output chunk is named by its ordinal in the child's stream;      *)
(*   - timestamps (new Date().toISOString()) are not modelled.             *)
(***************************************************************************)
EXTENDS Integers, Sequences, FiniteSets, TLC

\* ---------------------------------------------------------------- bounds
\* Number of startProcess calls that reach a successful pty.spawn.
MaxSessions == 2
\* Number of output chunks the children emit, all sessions together.
MaxChunks == 3
\* Number of writeInput calls forwarded to the PTYs, all sessions together.
MaxWrites == 1

\* const maxBufferSize = 10000 (line 55), scaled down so that eviction is
\* reached; the code only ever compares the buffer length against it.
maxBufferSize == 2

VARIABLES
    sessions,      \* the Map `sessions` (line 9): id -> session record
    outputBuffer,  \* the array `outputBuffer` of each spawn (line 54); session.output aliases it (line 66)
    pty,           \* the node-pty handle `p` of each spawn (line 45)
    uuidCount,     \* number of randomUUID() values drawn (line 53)
    appended,      \* history: every event ever pushed to each outputBuffer
    lastIndex,     \* polling client (README.sk.md lines 399-414): next fromIndex
    polled,        \* polling client: concatenation of the slices received
    process,       \* the Node process: SIGINT delivered, kill() calls of its handler, process.exit reached
    waits          \* wait-mode starts (spec section 4.4): session id -> "pending", "returned" or "timeout"

vars == <<sessions, outputBuffer, pty, uuidCount, appended, lastIndex, polled, process, waits>>

\* ---------------------------------------------------------------- values
Null == << >>
Some(v) == <<v>>

\* Mutant: an id source that hands out the same value again.
ReusedUUID(n) == <<1>>

\* The value of the n-th randomUUID() call: a value not returned before.
randomUUID(n) == <<n>>

\* Identifiers a caller may pass: the empty string, a value never issued
\* (<<0>>) and every value randomUUID can return within the bounds.
SessionIdArgs == {<< >>} \cup {<<n>> : n \in 0..MaxSessions}

\* The optional sessionId of cleanupSessions: omitted, or any string.
Undefined == [present |-> FALSE, value |-> << >>]
Given(s) == [present |-> TRUE, value |-> s]
OptionalIdArgs == {Undefined} \cup {Given(s) : s \in SessionIdArgs}

\* JavaScript truthiness of an optional string (`if (sessionId)`, line 289).
Truthy(arg) == arg.present /\ arg.value # << >>

\* fromIndex values: negative, inside the buffer, at its end and past it.
FromIndexArgs == -1..(maxBufferSize + 2)
Cmds == {"cat"}
InputData == {"ping"}
ExitCodes == {0}

\* What onExit can report: the child ends by itself with some exit code, or
\* (once kill() was called) it is ended by the signal (SIGHUP, number 1).
ExitOutcomes(h) ==
    {[exitCode |-> c, signal |-> 0] : c \in ExitCodes}
        \cup (IF h.killed THEN {[exitCode |-> 0, signal |-> 1]} ELSE {})

StdoutEvent(data) == [type |-> "stdout", data |-> data]
ExitEvent(exitCode, signal) == [type |-> "exit", exitCode |-> exitCode, signal |-> signal]

\* Mutant: a slice that starts one element late.
SliceFromNext(arr, start) ==
    LET len == Len(arr)
        k == IF start + 1 > len THEN len ELSE start + 1
    IN  SubSeq(arr, k + 1, len)

\* Mutant: a slice that starts over from the first element when start is
\* past the end.
SliceWrapping(arr, start) ==
    LET len == Len(arr)
        k == IF start < 0
               THEN (IF len + start < 0 THEN 0 ELSE len + start)
               ELSE (IF start > len THEN 0 ELSE start)
    IN  SubSeq(arr, k + 1, len)

\* Array.prototype.slice(start) for an integer start.
Slice(arr, start) ==
    LET len == Len(arr)
        k == IF start < 0
               THEN (IF len + start < 0 THEN 0 ELSE len + start)
               ELSE (IF start > len THEN len ELSE start)
    IN  SubSeq(arr, k + 1, len)

\* Mutant: a shift that drops the newest element instead of the oldest.
ShiftNewest(arr) == SubSeq(arr, 1, Len(arr) - 1)

\* Array.prototype.shift(): the array without its first element.
Shift(arr) == Tail(arr)

Spawned == DOMAIN pty
Registered == DOMAIN sessions

\* Map.prototype.delete for a set of keys.
MapDelete(m, keys) == [k \in (DOMAIN m) \ keys |-> m[k]]
\* Map.prototype.set.
MapSet(m, key, value) == [k \in (DOMAIN m) \cup {key} |-> IF k = key THEN value ELSE m[k]]

Init ==
    /\ sessions = << >>
    /\ outputBuffer = << >>
    /\ pty = << >>
    /\ uuidCount = 0
    /\ appended = << >>
    /\ lastIndex = 0
    /\ polled = << >>
    /\ process = [sigint |-> FALSE, killAttempted |-> {}, killThrew |-> {}, exited |-> FALSE]
    /\ waits = << >>

\* ------------------------------------------------------------ startProcess
\* Mutant: a reply that carries the pid of the previous spawn.
StartProcessReplyStalePid(spawnThrows) ==
    IF spawnThrows
      THEN [thrown |-> "spawn"]
      ELSE [ok |-> TRUE, sessionId |-> <<uuidCount + 1>>, pid |-> uuidCount]

\* An exception that leaves the handler instead of a structuredContent.
Thrown(e) == [thrown |-> e]

\* Lines 45-101.  pty.spawn (line 45) is not inside a try: when it throws,
\* the exception leaves the handler; otherwise the reply of lines 97-101.
StartProcessReply(spawnThrows) ==
    IF spawnThrows
      THEN Thrown("spawn")
      ELSE [ok |-> TRUE, sessionId |-> randomUUID(uuidCount + 1), pid |-> uuidCount + 1]

\* Mutant: startProcess that returns the handle to the event loop before the
\* session is stored in the Map.
StartProcessUnregistered(cmd, spawnThrows) ==
    /\ ~process.exited
    /\ uuidCount < MaxSessions
    /\ IF spawnThrows
         THEN UNCHANGED <<pty, outputBuffer, uuidCount, appended>>
         ELSE /\ uuidCount' = uuidCount + 1
              /\ pty' = MapSet(pty, <<uuidCount + 1>>,
                               [pid |-> uuidCount + 1, killed |-> FALSE, exited |-> FALSE,
                                written |-> << >>])
              /\ outputBuffer' = MapSet(outputBuffer, <<uuidCount + 1>>, << >>)
              /\ appended' = MapSet(appended, <<uuidCount + 1>>, << >>)
    /\ UNCHANGED <<sessions, lastIndex, polled, process, waits>>

\* Lines 38-107.  pty.spawn either throws (line 45: nothing is registered)
\* or returns a handle.
StartProcess(cmd, spawnThrows) ==
    /\ ~process.exited
    /\ uuidCount < MaxSessions
    /\ IF spawnThrows
         THEN UNCHANGED <<sessions, outputBuffer, pty, uuidCount, appended>>
         ELSE LET sessionId == randomUUID(uuidCount + 1)
                  pid == uuidCount + 1
              IN  /\ uuidCount' = uuidCount + 1
                  /\ pty' = MapSet(pty, sessionId,
                                   [pid |-> pid, killed |-> FALSE, exited |-> FALSE, written |-> << >>])
                  /\ outputBuffer' = MapSet(outputBuffer, sessionId, << >>)
                  /\ appended' = MapSet(appended, sessionId, << >>)
                  /\ sessions' = MapSet(sessions, sessionId,
                                        [pid |-> pid, cmd |-> cmd,
                                         exitCode |-> Null, exitSignal |-> Null,
                                         isRunning |-> TRUE])
    /\ UNCHANGED <<lastIndex, polled, process, waits>>

\* ------------------------------------------------------------ PTY callbacks
\* Lines 74-77: push the event, then drop the oldest one when over the bound.
PushData(buffer, event) ==
    LET pushed == Append(buffer, event)
    IN  IF Len(pushed) > maxBufferSize THEN Shift(pushed) ELSE pushed

\* Mutant: an exit callback that does not record the exit event.
PushExitDropped(buffer, event) == buffer

\* Lines 87-92: the exit marker is pushed with no length check.
PushExit(buffer, event) == Append(buffer, event)

\* Number of chunks the n-th child has emitted, and the first n children
\* together.  A handle that has not exited has had only data pushed.
Chunks(id) == Cardinality({i \in 1..Len(appended[id]) : appended[id][i].type = "stdout"})
RECURSIVE ChunksUpTo(_)
ChunksUpTo(n) == IF n = 0 THEN 0 ELSE ChunksUpTo(n - 1) + Chunks(randomUUID(n))

\* Lines 72-79.  The closure holds outputBuffer itself, so the push happens
\* whether or not the session is still in the Map.  node-pty delivers data
\* only before it reports the exit.
OnData(id) ==
    /\ ~process.exited
    /\ id \in Spawned
    /\ ~pty[id].exited
    /\ ChunksUpTo(uuidCount) < MaxChunks
    /\ LET event == StdoutEvent(Chunks(id) + 1)
       IN  /\ outputBuffer' = [outputBuffer EXCEPT ![id] = PushData(@, event)]
           /\ appended' = [appended EXCEPT ![id] = Append(@, event)]
    /\ UNCHANGED <<sessions, pty, uuidCount, lastIndex, polled, process, waits>>

\* Mutant: an exit callback that records the exit and leaves isRunning alone.
ExitUpdateStillRunning(session, outcome) ==
    [session EXCEPT !.exitCode = Some(outcome.exitCode),
                    !.exitSignal = Some(outcome.signal)]

\* Mutant: an exit callback that also clears the pid and cmd of the record.
ExitUpdateDroppingPid(session, outcome) ==
    [session EXCEPT !.isRunning = FALSE,
                    !.exitCode = Some(outcome.exitCode),
                    !.exitSignal = Some(outcome.signal),
                    !.pid = 0, !.cmd = ""]

\* Lines 84-86: what the exit callback writes into the session record.
ExitUpdate(session, outcome) ==
    [session EXCEPT !.isRunning = FALSE,
                    !.exitCode = Some(outcome.exitCode),
                    !.exitSignal = Some(outcome.signal)]

\* Mutant: an exit callback that puts a record back for a session no longer
\* in the Map.
OnExitReinserting(id, outcome) ==
    /\ ~process.exited
    /\ id \in DOMAIN pty
    /\ ~pty[id].exited
    /\ outcome \in ExitOutcomes(pty[id])
    /\ pty' = [pty EXCEPT ![id].exited = TRUE]
    /\ sessions' = MapSet(sessions, id,
                          [pid |-> pty[id].pid, cmd |-> "cat",
                           exitCode |-> Some(outcome.exitCode),
                           exitSignal |-> Some(outcome.signal),
                           isRunning |-> FALSE])
    /\ outputBuffer' = [outputBuffer EXCEPT ![id] = Append(@, ExitEvent(outcome.exitCode, outcome.signal))]
    /\ appended' = [appended EXCEPT ![id] = Append(@, ExitEvent(outcome.exitCode, outcome.signal))]
    /\ UNCHANGED <<uuidCount, lastIndex, polled, process, waits>>

\* Lines 81-95.  Fires once per handle; a session no longer in the Map is
\* left alone (line 83).
OnExit(id, outcome) ==
    /\ ~process.exited
    /\ id \in Spawned
    /\ ~pty[id].exited
    /\ outcome \in ExitOutcomes(pty[id])
    /\ pty' = [pty EXCEPT ![id].exited = TRUE]
    /\ IF id \in Registered
         THEN LET event == ExitEvent(outcome.exitCode, outcome.signal)
              IN  /\ sessions' = [sessions EXCEPT ![id] = ExitUpdate(@, outcome)]
                  /\ outputBuffer' = [outputBuffer EXCEPT ![id] = PushExit(@, event)]
                  /\ appended' = [appended EXCEPT ![id] = Append(@, event)]
         ELSE UNCHANGED <<sessions, outputBuffer, appended>>
    /\ UNCHANGED <<uuidCount, lastIndex, polled, process, waits>>

\* ------------------------------------------------------------ writeInput
\* Lines 128, 167, 247, 293.
NotFound == [ok |-> FALSE, error |-> "Session not found"]

\* Mutant: writeInput that refuses a session that is not running.
WriteInputReplyRunningOnly(sessionId) ==
    IF sessionId \notin DOMAIN sessions THEN [ok |-> FALSE, error |-> "Session not found"]
    ELSE IF sessions[sessionId].isRunning THEN [ok |-> TRUE]
    ELSE [ok |-> FALSE, error |-> "Session is not running"]

\* Lines 126-135.
WriteInputReply(sessionId) ==
    IF sessionId \notin Registered THEN NotFound ELSE [ok |-> TRUE]

\* Number of pty.write calls made so far on the first n handles.
RECURSIVE Writes(_)
Writes(n) == IF n = 0 THEN 0 ELSE Writes(n - 1) + Len(pty[randomUUID(n)].written)

\* Mutant: writeInput that sends the data to the PTY twice.
WriteInputTwice(sessionId, data) ==
    /\ ~process.exited
    /\ IF sessionId \notin DOMAIN sessions
         THEN UNCHANGED pty
         ELSE /\ Writes(uuidCount) < MaxWrites
              /\ pty' = [pty EXCEPT ![sessionId].written = Append(Append(@, data), data)]
    /\ UNCHANGED <<sessions, outputBuffer, uuidCount, appended, lastIndex, polled, process, waits>>

\* Lines 125-140.
WriteInput(sessionId, data) ==
    /\ ~process.exited
    /\ IF sessionId \notin Registered
         THEN UNCHANGED pty
         ELSE /\ Writes(uuidCount) < MaxWrites
              /\ pty' = [pty EXCEPT ![sessionId].written = Append(@, data)]
    /\ UNCHANGED <<sessions, outputBuffer, uuidCount, appended, lastIndex, polled, process, waits>>

\* ------------------------------------------------------------ getSessionOutput
\* The optional fromIndex (line 151): omitted, or a number.
OmittedIndex == [present |-> FALSE, value |-> 0]
GivenIndex(n) == [present |-> TRUE, value |-> n]

\* Line 164: the default parameter, `fromIndex = 0`.
FromIndexParam(arg) == IF arg.present THEN arg.value ELSE 0

\* Line 182.
TotalLines(output) == Len(output)

\* Lines 165-183.
GetSessionOutputReply(sessionId, fromIndex) ==
    IF sessionId \notin Registered
      THEN NotFound
      ELSE LET s == sessions[sessionId]
               output == outputBuffer[sessionId]
           IN  [ok |-> TRUE,
                sessionId |-> sessionId,
                isRunning |-> s.isRunning,
                exitCode |-> s.exitCode,
                exitSignal |-> s.exitSignal,
                output |-> Slice(output, fromIndex),
                totalLines |-> TotalLines(output)]

\* Mutant: getSessionOutput that takes the returned events out of the buffer
\* (splice in place of slice).
GetSessionOutputDraining(sessionId, fromIndex) ==
    /\ ~process.exited
    /\ IF sessionId \in DOMAIN sessions /\ fromIndex >= 0 /\ fromIndex < Len(outputBuffer[sessionId])
         THEN outputBuffer' = [outputBuffer EXCEPT ![sessionId] = SubSeq(@, 1, fromIndex)]
         ELSE UNCHANGED outputBuffer
    /\ UNCHANGED <<sessions, pty, uuidCount, appended, lastIndex, polled, process, waits>>

\* Lines 164-189: the handler only reads.
GetSessionOutput(sessionId, fromIndex) ==
    /\ ~process.exited
    /\ UNCHANGED <<sessions, outputBuffer, pty, uuidCount, appended, lastIndex, polled, process, waits>>

\* ------------------------------------------------------------ listSessions
\* Mutant: a summary that counts every event ever pushed.
SummaryCountingAppended(id) ==
    [sessionId |-> id, pid |-> sessions[id].pid, cmd |-> sessions[id].cmd,
     isRunning |-> sessions[id].isRunning, exitCode |-> sessions[id].exitCode,
     outputLines |-> Len(appended[id])]

\* Lines 205-215: the summary of one Map entry.
Summary(id) ==
    LET s == sessions[id]
    IN  [sessionId |-> id, pid |-> s.pid, cmd |-> s.cmd,
         isRunning |-> s.isRunning, exitCode |-> s.exitCode,
         outputLines |-> Len(outputBuffer[id])]

\* Lines 205-215: one summary per Map entry, in insertion order.  Keys are
\* inserted in the order randomUUID produced them and never re-inserted.
RECURSIVE SessionList(_)
SessionList(n) ==
    IF n = 0 THEN << >>
    ELSE IF randomUUID(n) \in Registered
           THEN Append(SessionList(n - 1), Summary(randomUUID(n)))
           ELSE SessionList(n - 1)

\* Lines 217-220.
ListSessionsReply == [ok |-> TRUE, sessions |-> SessionList(uuidCount)]

\* Lines 204-226: the handler only reads.
ListSessions ==
    /\ ~process.exited
    /\ UNCHANGED <<sessions, outputBuffer, pty, uuidCount, appended, lastIndex, polled, process, waits>>

\* ------------------------------------------------------------ stopProcess
\* Lines 245-268.
StopProcessReply(sessionId, killThrows) ==
    IF sessionId \notin Registered THEN NotFound
    ELSE IF killThrows THEN [ok |-> FALSE, error |-> "kill failed"]
    ELSE [ok |-> TRUE, killed |-> TRUE]

\* Mutant: a stop that resets the exit fields of the record.
StopUpdateClearingExit(session) ==
    [session EXCEPT !.isRunning = FALSE, !.exitCode = Null, !.exitSignal = Null]

\* Line 255: what a kill() that returned does to the session record.
StopUpdate(session) == [session EXCEPT !.isRunning = FALSE]

\* Mutant: stopProcess that deletes the session once the kill was sent.
StopProcessDeleting(sessionId, killThrows) ==
    /\ ~process.exited
    /\ IF sessionId \notin DOMAIN sessions \/ killThrows
         THEN UNCHANGED <<sessions, pty>>
         ELSE /\ pty' = [pty EXCEPT ![sessionId].killed = TRUE]
              /\ sessions' = MapDelete(sessions, {sessionId})
    /\ UNCHANGED <<outputBuffer, uuidCount, appended, lastIndex, polled, process, waits>>

\* Mutant: stopProcess that marks every session as not running.
StopProcessAll(sessionId, killThrows) ==
    /\ ~process.exited
    /\ IF sessionId \notin DOMAIN sessions \/ killThrows
         THEN UNCHANGED <<sessions, pty>>
         ELSE /\ pty' = [pty EXCEPT ![sessionId].killed = TRUE]
              /\ sessions' = [id \in DOMAIN sessions |-> [sessions[id] EXCEPT !.isRunning = FALSE]]
    /\ UNCHANGED <<outputBuffer, uuidCount, appended, lastIndex, polled, process, waits>>

\* Mutant: stopProcess that marks the session before it calls kill().
StopProcessMarkingFirst(sessionId, killThrows) ==
    /\ ~process.exited
    /\ IF sessionId \notin DOMAIN sessions
         THEN UNCHANGED <<sessions, pty>>
         ELSE /\ sessions' = [sessions EXCEPT ![sessionId].isRunning = FALSE]
              /\ IF killThrows
                   THEN UNCHANGED pty
                   ELSE pty' = [pty EXCEPT ![sessionId].killed = TRUE]
    /\ UNCHANGED <<outputBuffer, uuidCount, appended, lastIndex, polled, process, waits>>

\* Mutant: stopProcess whose catch marks the session as running again.
StopProcessRestoring(sessionId, killThrows) ==
    /\ ~process.exited
    /\ IF sessionId \notin DOMAIN sessions
         THEN UNCHANGED <<sessions, pty>>
         ELSE IF killThrows
           THEN /\ sessions' = [sessions EXCEPT ![sessionId].isRunning = TRUE]
                /\ UNCHANGED pty
           ELSE /\ pty' = [pty EXCEPT ![sessionId].killed = TRUE]
                /\ sessions' = [sessions EXCEPT ![sessionId].isRunning = FALSE]
    /\ UNCHANGED <<outputBuffer, uuidCount, appended, lastIndex, polled, process, waits>>

\* Lines 244-270.  kill() either throws (caught, line 263) or returns.
StopProcess(sessionId, killThrows) ==
    /\ ~process.exited
    /\ IF sessionId \notin Registered \/ killThrows
         THEN UNCHANGED <<sessions, pty>>
         ELSE /\ pty' = [pty EXCEPT ![sessionId].killed = TRUE]
              /\ sessions' = [sessions EXCEPT ![sessionId] = StopUpdate(@)]
    /\ UNCHANGED <<outputBuffer, uuidCount, appended, lastIndex, polled, process, waits>>

\* ------------------------------------------------------------ cleanupSessions
\* Mutant: the running check left out.
StillRunningIgnored(session) == FALSE

\* Lines 299 and 316: the test that keeps a session from being removed.
StillRunning(session) == session.isRunning

\* Mutant: the loop stops after the first deletion.
FinishedFirstOnly ==
    LET fin == {id \in DOMAIN sessions : ~sessions[id].isRunning}
    IN  {id \in fin : \A other \in fin : id[1] <= other[1]}

\* Lines 315-320: the keys the loop deletes.
Finished == {id \in Registered : ~StillRunning(sessions[id])}

\* Lines 289-321.
CleanupSessionsReply(arg) ==
    IF Truthy(arg)
      THEN IF arg.value \notin Registered THEN NotFound
           ELSE IF StillRunning(sessions[arg.value])
             THEN [ok |-> FALSE, error |-> "Session is still running"]
             ELSE [ok |-> TRUE, cleaned |-> 1]
      ELSE [ok |-> TRUE, cleaned |-> Cardinality(Finished)]

\* Lines 288-327.
CleanupSessions(arg) ==
    /\ ~process.exited
    /\ IF Truthy(arg)
         THEN IF arg.value \in Registered /\ ~StillRunning(sessions[arg.value])
                THEN sessions' = MapDelete(sessions, {arg.value})
                ELSE UNCHANGED sessions
         ELSE sessions' = MapDelete(sessions, Finished)
    /\ UNCHANGED <<outputBuffer, pty, uuidCount, appended, lastIndex, polled, process, waits>>

\* ------------------------------------------------------------ SIGINT
\* Mutant: a loop without the try, which the first throwing kill() ends
\* before process.exit is reached.
KillEachAborting(throwing) ==
    IF throwing \cap DOMAIN sessions = {}
      THEN [attempted |-> DOMAIN sessions, killed |-> DOMAIN sessions, exits |-> TRUE]
      ELSE LET first == CHOOSE id \in throwing \cap DOMAIN sessions :
                            \A other \in throwing \cap DOMAIN sessions : id[1] <= other[1]
           IN  [attempted |-> {id \in DOMAIN sessions : id[1] <= first[1]},
                killed |-> {id \in DOMAIN sessions : id[1] < first[1]},
                exits |-> FALSE]

\* Lines 331-334: kill() is called on the handle of every value of the Map;
\* a throw is swallowed by the try of its own iteration (line 332), so the
\* loop goes on and process.exit(0) is reached.  `throwing` are the handles
\* whose kill() throws.
KillEach(throwing) ==
    [attempted |-> Registered, killed |-> Registered \ throwing, exits |-> TRUE]

\* Lines 330-335: the SIGINT handler.  After process.exit no handler and no
\* callback runs.
Sigint(throwing) ==
    /\ ~process.exited
    /\ LET outcome == KillEach(throwing)
       IN  /\ pty' = [id \in DOMAIN pty |->
                         IF id \in outcome.killed
                           THEN [pty[id] EXCEPT !.killed = TRUE]
                           ELSE pty[id]]
           /\ process' = [sigint |-> TRUE,
                          killAttempted |-> outcome.attempted,
                          killThrew |-> outcome.attempted \cap throwing,
                          exited |-> outcome.exits]
    /\ UNCHANGED <<sessions, outputBuffer, uuidCount, appended, lastIndex, polled, waits>>

\* ------------------------------------------------------------ wait-mode start
\* The sessions whose startProcessAndWait call has not returned yet.
PendingWaits == {id \in DOMAIN waits : waits[id] = "pending"}

\* The result on the deadline path: ok false and an error that names the timeout.
WaitTimeoutReply == [ok |-> FALSE, error |-> "timeout"]

\* The events captured for a session once its exit callback has run: onExit
\* pushes the exit event only for a session still in the Map (lines 83, 88-92).
CapturedAtExit(id, outcome) ==
    IF id \in Registered
      THEN PushExit(outputBuffer[id], ExitEvent(outcome.exitCode, outcome.signal))
      ELSE outputBuffer[id]

\* The result on the exit path: the child's exit code and signal and the
\* captured events.
WaitExitReply(id, outcome) ==
    [ok |-> TRUE, exitCode |-> outcome.exitCode, exitSignal |-> outcome.signal,
     output |-> CapturedAtExit(id, outcome)]

\* startProcessAndWait: the same spawn and registration as startProcess
\* (lines 45-70); the call then stays pending instead of returning.
StartProcessAndWait(cmd, spawnThrows) ==
    /\ ~process.exited
    /\ uuidCount < MaxSessions
    /\ IF spawnThrows
         THEN UNCHANGED <<sessions, outputBuffer, pty, uuidCount, appended, waits>>
         ELSE LET sessionId == randomUUID(uuidCount + 1)
                  pid == uuidCount + 1
              IN  /\ uuidCount' = uuidCount + 1
                  /\ pty' = MapSet(pty, sessionId,
                                   [pid |-> pid, killed |-> FALSE, exited |-> FALSE, written |-> << >>])
                  /\ outputBuffer' = MapSet(outputBuffer, sessionId, << >>)
                  /\ appended' = MapSet(appended, sessionId, << >>)
                  /\ sessions' = MapSet(sessions, sessionId,
                                        [pid |-> pid, cmd |-> cmd,
                                         exitCode |-> Null, exitSignal |-> Null,
                                         isRunning |-> TRUE])
                  /\ waits' = MapSet(waits, sessionId, "pending")
    /\ UNCHANGED <<lastIndex, polled, process>>

\* Mutant: a deadline that returns the error and leaves the child alone.
WaitTimeoutNoKill(id) ==
    /\ ~process.exited
    /\ id \in PendingWaits
    /\ ~pty[id].exited
    /\ waits' = [waits EXCEPT ![id] = "timeout"]
    /\ UNCHANGED <<sessions, outputBuffer, pty, uuidCount, appended, lastIndex, polled, process>>

\* Path (b): the deadline elapses while the exit callback has not fired.  The
\* child is sent the termination signal of stop (pty.kill(), line 254), the
\* call returns WaitTimeoutReply and the session record stays registered.
WaitTimeout(id) ==
    /\ ~process.exited
    /\ id \in PendingWaits
    /\ ~pty[id].exited
    /\ pty' = [pty EXCEPT ![id].killed = TRUE]
    /\ waits' = [waits EXCEPT ![id] = "timeout"]
    /\ UNCHANGED <<sessions, outputBuffer, uuidCount, appended, lastIndex, polled, process>>

\* Path (a): the exit callback of a session whose call is pending.  It does
\* what onExit does (lines 81-95) and the call returns WaitExitReply.
WaitExit(id, outcome) ==
    /\ ~process.exited
    /\ id \in PendingWaits
    /\ ~pty[id].exited
    /\ outcome \in ExitOutcomes(pty[id])
    /\ pty' = [pty EXCEPT ![id].exited = TRUE]
    /\ IF id \in Registered
         THEN LET event == ExitEvent(outcome.exitCode, outcome.signal)
              IN  /\ sessions' = [sessions EXCEPT ![id] = ExitUpdate(@, outcome)]
                  /\ outputBuffer' = [outputBuffer EXCEPT ![id] = PushExit(@, event)]
                  /\ appended' = [appended EXCEPT ![id] = Append(@, event)]
         ELSE UNCHANGED <<sessions, outputBuffer, appended>>
    /\ waits' = [waits EXCEPT ![id] = "returned"]
    /\ UNCHANGED <<uuidCount, lastIndex, polled, process>>

\* ------------------------------------------------------------ polling client
\* README.sk.md lines 399-414: the client keeps lastIndex, asks for the
\* events from it, consumes the slice and stores totalLines as the next
\* lastIndex.  It follows the first session started.
PollSession == randomUUID(1)

Poll ==
    /\ ~process.exited
    /\ PollSession \in Registered
    /\ LET reply == GetSessionOutputReply(PollSession, lastIndex)
       IN  /\ polled' = polled \o reply.output
           /\ lastIndex' = reply.totalLines
    /\ UNCHANGED <<sessions, outputBuffer, pty, uuidCount, appended, process, waits>>

\* ------------------------------------------------------------ specification
Next ==
    \/ \E cmd \in Cmds, spawnThrows \in BOOLEAN : StartProcess(cmd, spawnThrows)
    \/ \E id \in Spawned : OnData(id)
    \/ \E id \in Spawned : \E outcome \in ExitOutcomes(pty[id]) : OnExit(id, outcome)
    \/ \E sessionId \in SessionIdArgs, data \in InputData : WriteInput(sessionId, data)
    \/ \E sessionId \in SessionIdArgs, fromIndex \in FromIndexArgs :
           GetSessionOutput(sessionId, fromIndex)
    \/ ListSessions
    \/ \E sessionId \in SessionIdArgs, killThrows \in BOOLEAN :
           StopProcess(sessionId, killThrows)
    \/ \E arg \in OptionalIdArgs : CleanupSessions(arg)

Spec == Init /\ [][Next]_vars

\* The server with the polling client running against it.
NextPoll == Next \/ Poll

SpecPoll == Init /\ [][NextPoll]_vars

\* The exit callback of a child that kill() has signalled.
ExitOfKilled(id) ==
    /\ id \in Spawned
    /\ pty[id].killed
    /\ \E outcome \in ExitOutcomes(pty[id]) : OnExit(id, outcome)

\* The server with children that exit once they have been signalled: the
\* event loop runs the exit callback node-pty queues for such a child.
SpecLive ==
    /\ Init /\ [][Next]_vars
    /\ \A n \in 1..MaxSessions : WF_vars(ExitOfKilled(randomUUID(n)))

\* The server with the interrupt signal delivered at any moment.
NextSigint == Next \/ \E throwing \in SUBSET Registered : Sigint(throwing)

SpecSigint == Init /\ [][NextSigint]_vars

\* A step of the server that is not the exit callback of a pending wait-mode
\* call: that callback is WaitExit.
NextNotWaitedExit ==
    /\ Next
    /\ \A id \in PendingWaits : pty'[id].exited = pty[id].exited

\* The server with wait-mode starts next to the other tools.
NextWait ==
    \/ NextNotWaitedExit
    \/ \E cmd \in Cmds, spawnThrows \in BOOLEAN : StartProcessAndWait(cmd, spawnThrows)
    \/ \E id \in Spawned : WaitTimeout(id)
    \/ \E id \in Spawned : \E outcome \in ExitOutcomes(pty[id]) : WaitExit(id, outcome)

SpecWait == Init /\ [][NextWait]_vars

\* The exit callback, in either form, of a child that has been signalled.
ExitOfKilledWait(id) ==
    /\ id \in Spawned
    /\ pty[id].killed
    /\ \E outcome \in ExitOutcomes(pty[id]) :
           \/ id \notin PendingWaits /\ OnExit(id, outcome)
           \/ WaitExit(id, outcome)

\* SpecWait with children that exit once they have been signalled.
SpecWaitLive ==
    /\ Init /\ [][NextWait]_vars
    /\ \A n \in 1..MaxSessions : WF_vars(ExitOfKilledWait(randomUUID(n)))

\* ======================================================================
\* Claims
\* ======================================================================

IsPrefix(s, t) == Len(s) <= Len(t) /\ SubSeq(t, 1, Len(s)) = s

HasExitEvent(output) == \E i \in 1..Len(output) : output[i].type = "exit"

\* The ids listSessions reports.
ListedIds ==
    {ListSessionsReply.sessions[i].sessionId : i \in 1..Len(ListSessionsReply.sessions)}

\* C1: every registered session is either running with exitCode and
\* exitSignal both unset, or not running with both exit fields set.
C1_ExactlyOneRunState ==
    \A id \in Registered :
        LET s == sessions[id]
        IN  \/ s.isRunning /\ s.exitCode = Null /\ s.exitSignal = Null
            \/ ~s.isRunning /\ s.exitCode # Null /\ s.exitSignal # Null

\* C2: a client polling with fromIndex = the previous totalLines has, after
\* each poll, received exactly the events appended to the session, each once
\* and in order.
C2_PollingGapFree == [][Poll => polled' = appended'[PollSession]]_vars

\* C3: the totalLines getSessionOutput reports for a registered session is
\* the number of events ever appended to its buffer.
C3_TotalLinesCumulative ==
    \A id \in Registered :
        \A fromIndex \in FromIndexArgs :
            GetSessionOutputReply(id, fromIndex).totalLines = Len(appended[id])

\* C4: the buffer of a registered session never holds more than
\* maxBufferSize events, exit marker included.
C4_BufferBounded ==
    \A id \in Registered : Len(outputBuffer[id]) <= maxBufferSize

\* C5, the replies: for a registered id cleanupSessions answers "still
\* running" exactly when the session is running and cleaned = 1 otherwise;
\* for an id that was removed every operation answers "not found" and
\* listSessions does not list it.
C5_Replies ==
    /\ \A id \in Registered :
           CleanupSessionsReply(Given(id)) =
               IF sessions[id].isRunning
                 THEN [ok |-> FALSE, error |-> "Session is still running"]
                 ELSE [ok |-> TRUE, cleaned |-> 1]
    /\ \A id \in Spawned \ Registered :
           /\ CleanupSessionsReply(Given(id)) = NotFound
           /\ WriteInputReply(id) = NotFound
           /\ \A fromIndex \in FromIndexArgs : GetSessionOutputReply(id, fromIndex) = NotFound
           /\ \A killThrows \in BOOLEAN : StopProcessReply(id, killThrows) = NotFound
           /\ id \notin ListedIds

\* C5, the steps: cleanupSessions with a registered id removes that session
\* and no other when it is not running and changes nothing when it is; a
\* running session is never removed; a removed id stays removed.
C5_Steps ==
    UNCHANGED vars \/
    /\ \A id \in Registered :
           /\ CleanupSessions(Given(id)) =>
                  IF sessions[id].isRunning
                    THEN sessions' = sessions
                    ELSE /\ Registered' = Registered \ {id}
                         /\ \A other \in Registered' : sessions'[other] = sessions[other]
           /\ id \notin Registered' => ~sessions[id].isRunning
    /\ \A id \in Spawned \ Registered : id \notin Registered'

\* C5: cleanupSessions with the id of a registered session fails with "still
\* running" and changes nothing iff the session is running at call time;
\* otherwise it answers cleaned = 1 and the session is unregistered from then
\* on (absent from listSessions, "not found" for later operations).
C5_CleanupById == []C5_Replies /\ [][C5_Steps]_vars

\* One session has been removed and is unknown to every operation, while
\* another is running, so that cleaning it by id is refused.
C5_Witness ==
    /\ \E id \in Spawned \ Registered :
           /\ pty[id].exited
           /\ GetSessionOutputReply(id, 0) = NotFound
    /\ \E id \in Registered :
           /\ sessions[id].isRunning
           /\ ~CleanupSessionsReply(Given(id)).ok

\* C6, the step: exactly the sessions not running are removed, the running
\* ones keep their record and buffer.
C6_Step ==
    CleanupSessions(Undefined) =>
        LET notRunning == {id \in Registered : ~sessions[id].isRunning}
        IN  /\ Registered' = Registered \ notRunning
            /\ \A id \in Registered \ notRunning :
                   /\ sessions'[id] = sessions[id]
                   /\ outputBuffer'[id] = outputBuffer[id]

\* C6: cleanupSessions without a sessionId removes exactly the sessions that
\* are not running at call time, answers with their number (0 when there are
\* none), and leaves every running session registered with its record and
\* buffer unchanged.
C6_CleanupAll ==
    /\ [](CleanupSessionsReply(Undefined) =
             [ok |-> TRUE,
              cleaned |-> Cardinality({id \in Registered : ~sessions[id].isRunning})])
    /\ [][C6_Step]_vars

\* After a cleanup one session is gone, no finished session is left, and a
\* running session that has output is still registered.
C6_Witness ==
    /\ Spawned \ Registered # {}
    /\ CleanupSessionsReply(Undefined).cleaned = 0
    /\ \E id \in Registered : sessions[id].isRunning /\ Len(outputBuffer[id]) > 0

\* Some cleanupSessions call explains the step.
CleanupStep == \E arg \in OptionalIdArgs : CleanupSessions(arg)

\* C7 as stated: in every step that changes the state, only cleanupSessions
\* removes a session, and whatever a stopped or exited session had captured
\* stays in what getSessionOutput returns.
C7_KeptUntilCleanup ==
    [][UNCHANGED vars \/ \A id \in Registered :
          /\ id \notin Registered' => CleanupStep
          /\ (id \in Registered' /\ (pty'[id].killed \/ pty'[id].exited)) =>
                 IsPrefix(outputBuffer[id], GetSessionOutputReply(id, 0).output')]_vars

\* What the code does keep, next to C7: in every step that changes the state, only cleanupSessions
\* removes a session, and whatever a stopped or exited session had captured
\* stays in what getSessionOutput returns, except for the oldest event, which
\* a later data callback evicts when the buffer is already at the capacity
\* bound.
C7_KeptUntilCleanupOrEvicted ==
    [][UNCHANGED vars \/ \A id \in Registered :
          /\ id \notin Registered' => CleanupStep
          /\ (id \in Registered' /\ (pty'[id].killed \/ pty'[id].exited)) =>
                 \/ IsPrefix(outputBuffer[id], GetSessionOutputReply(id, 0).output')
                 \/ /\ Len(outputBuffer[id]) >= maxBufferSize
                    /\ OnData(id)
                    /\ IsPrefix(Tail(outputBuffer[id]),
                                GetSessionOutputReply(id, 0).output')]_vars

\* A stopped session whose child has exited is still registered and
\* getSessionOutput returns its buffer, exit marker included, from which an
\* event was evicted.
C7_Witness ==
    \E id \in Registered :
        /\ pty[id].killed /\ pty[id].exited
        /\ Len(appended[id]) > Len(outputBuffer[id])
        /\ HasExitEvent(GetSessionOutputReply(id, 0).output)
        /\ GetSessionOutputReply(id, 0).output = outputBuffer[id]

\* C8: stopProcess on a registered running session signals the PTY and
\* answers killed = true, leaving the session record and buffer as they were;
\* isRunning becomes false only in the exit callback.
C8_StopLeavesRecord ==
    [][\A id \in Registered :
          /\ (sessions[id].isRunning /\ StopProcess(id, FALSE)) =>
                 /\ StopProcessReply(id, FALSE) = [ok |-> TRUE, killed |-> TRUE]
                 /\ pty'[id].killed
                 /\ sessions' = sessions
                 /\ outputBuffer' = outputBuffer
          /\ (sessions[id].isRunning /\ id \in Registered' /\ ~sessions'[id].isRunning) =>
                 (~pty[id].exited /\ pty'[id].exited)]_vars

\* C9: what getSessionOutput and listSessions report for a registered session
\* has isRunning = false, the exit fields set and the exit event in the
\* buffer either all together or not at all.
C9_ExitVisibleTogether ==
    \A id \in Registered :
        LET reply == GetSessionOutputReply(id, 0)
            summary == Summary(id)
            stopped == ~reply.isRunning
            fields == reply.exitCode # Null /\ reply.exitSignal # Null
            marked == HasExitEvent(reply.output)
        IN  /\ stopped = fields
            /\ fields = marked
            /\ (~summary.isRunning) = (summary.exitCode # Null)

\* C10: the slice and the totalLines of a getSessionOutput reply come from
\* the same buffer state: totalLines is the buffer's length and, for
\* 0 <= fromIndex <= totalLines, the slice is the buffer's events from
\* fromIndex on, totalLines - fromIndex of them.
C10_ConsistentSnapshot ==
    \A id \in Registered : \A fromIndex \in FromIndexArgs :
        LET reply == GetSessionOutputReply(id, fromIndex)
        IN  /\ reply.ok
            /\ reply.totalLines = Len(outputBuffer[id])
            /\ (0 <= fromIndex /\ fromIndex <= reply.totalLines) =>
                   /\ Len(reply.output) = reply.totalLines - fromIndex
                   /\ \A i \in 1..Len(reply.output) :
                          reply.output[i] = outputBuffer[id][fromIndex + i]

\* A read from the middle of a buffer that holds the exit marker on top of
\* maxBufferSize chunks.
C10_Witness ==
    \E id \in Registered : \E fromIndex \in FromIndexArgs :
        LET reply == GetSessionOutputReply(id, fromIndex)
        IN  /\ 0 < fromIndex /\ fromIndex < reply.totalLines
            /\ reply.totalLines > maxBufferSize
            /\ HasExitEvent(reply.output)

IsSuffix(s, t) == Len(s) <= Len(t) /\ SubSeq(t, Len(t) - Len(s) + 1, Len(t)) = s

\* C11: the buffer of a registered session is a contiguous suffix of the
\* events observed from its child, which are the chunks in the order the
\* child emitted them followed by at most one exit event: nothing is
\* reordered or duplicated and only the oldest events are missing.
C11_BufferIsSuffix ==
    \A id \in Registered :
        /\ IsSuffix(outputBuffer[id], appended[id])
        /\ \A i \in 1..Len(appended[id]) :
               IF appended[id][i].type = "stdout"
                 THEN appended[id][i].data = i
                 ELSE i = Len(appended[id]) /\ pty[id].exited

\* A running session whose buffer is full and has lost its oldest chunk.
C11_Witness ==
    \E id \in Registered :
        /\ sessions[id].isRunning
        /\ Len(outputBuffer[id]) = maxBufferSize
        /\ Len(appended[id]) = maxBufferSize + 1
        /\ outputBuffer[id][1] # appended[id][1]

\* C12: getSessionOutput on a registered session with fromIndex omitted, 0
\* or negative returns the whole retained buffer, oldest event first.
C12_NonPositiveReturnsAll ==
    \A id \in Registered :
        \A arg \in {OmittedIndex} \cup {GivenIndex(n) : n \in {m \in FromIndexArgs : m <= 0}} :
            GetSessionOutputReply(id, FromIndexParam(arg)).output = outputBuffer[id]

\* C13: getSessionOutput on a registered session answers ok with an empty
\* slice when fromIndex is greater than totalLines, and with fewer than
\* totalLines events when 0 < fromIndex < totalLines.
C13_PastEndAndPartial ==
    \A id \in Registered : \A fromIndex \in FromIndexArgs :
        LET reply == GetSessionOutputReply(id, fromIndex)
        IN  /\ fromIndex > reply.totalLines =>
                   reply.ok /\ reply.output = << >>
            /\ (0 < fromIndex /\ fromIndex < reply.totalLines) =>
                   Len(reply.output) < reply.totalLines

\* A session with several buffered events is read once from past the end
\* and once from the middle.
C13_Witness ==
    \E id \in Registered : \E past, inside \in FromIndexArgs :
        /\ Len(outputBuffer[id]) >= 2
        /\ past > GetSessionOutputReply(id, past).totalLines
        /\ GetSessionOutputReply(id, past).output = << >>
        /\ 0 < inside /\ inside < Len(outputBuffer[id])
        /\ GetSessionOutputReply(id, inside).output # << >>

\* C14, the replies: every operation that takes a sessionId answers
\* "Session not found" for an id that is not registered.
C14_Replies ==
    \A sessionId \in SessionIdArgs \ Registered :
        /\ WriteInputReply(sessionId) = NotFound
        /\ \A fromIndex \in FromIndexArgs : GetSessionOutputReply(sessionId, fromIndex) = NotFound
        /\ \A killThrows \in BOOLEAN : StopProcessReply(sessionId, killThrows) = NotFound
        /\ CleanupSessionsReply(Given(sessionId)) = NotFound

\* C14, the steps: such a call changes no session record, no buffer, no PTY
\* and not the registry.
C14_Steps ==
    \A sessionId \in SessionIdArgs \ Registered :
        (\/ \E data \in InputData : WriteInput(sessionId, data)
         \/ \E fromIndex \in FromIndexArgs : GetSessionOutput(sessionId, fromIndex)
         \/ \E killThrows \in BOOLEAN : StopProcess(sessionId, killThrows)
         \/ CleanupSessions(Given(sessionId)))
            => /\ sessions' = sessions
               /\ outputBuffer' = outputBuffer
               /\ pty' = pty

\* C14: writeInput, getSessionOutput, stopProcess and cleanupSessions called
\* with a sessionId that is not registered answer ok = false, "not found",
\* and leave the registry and every session's state and buffer unchanged.
C14_UnknownIdIsError == []C14_Replies /\ [][C14_Steps]_vars

\* C15, the replies: stopProcess on a registered session answers ok = true,
\* whether the child is alive, already signalled or already gone.
C15_Replies ==
    \A id \in Registered : \A killThrows \in BOOLEAN :
        StopProcessReply(id, killThrows).ok

\* C15, the steps: stopProcess leaves the exit fields and the buffer of the
\* session as they were.
C15_Steps ==
    \A id \in Registered : \A killThrows \in BOOLEAN :
        StopProcess(id, killThrows) =>
            /\ sessions'[id].exitCode = sessions[id].exitCode
            /\ sessions'[id].exitSignal = sessions[id].exitSignal
            /\ outputBuffer'[id] = outputBuffer[id]

\* C15: stopProcess on a registered session whose process has exited, and
\* stopProcess repeated any number of times on a registered session, always
\* answers ok = true and leaves the exit fields and buffer unchanged.
C15_StopAlwaysSucceeds == []C15_Replies /\ [][C15_Steps]_vars

\* C16: writeInput on a registered session whose process has exited or has
\* been stopped answers ok = true, and whenever writeInput answers with an
\* error the id is unregistered and the error is "Session not found".
C16_WriteToDeadSessionOk ==
    /\ \A id \in Registered :
           (~sessions[id].isRunning \/ pty[id].exited \/ pty[id].killed) =>
               WriteInputReply(id) = [ok |-> TRUE]
    /\ \A sessionId \in SessionIdArgs :
           ~WriteInputReply(sessionId).ok =>
               sessionId \notin Registered /\ WriteInputReply(sessionId) = NotFound

\* Two registered sessions, one exited and one stopped but not yet exited;
\* the exited one has had input written to its PTY.
C16_Witness ==
    /\ \E id \in Registered :
           /\ pty[id].exited /\ ~sessions[id].isRunning
           /\ Len(pty[id].written) > 0
           /\ WriteInputReply(id).ok
    /\ \E id \in Registered :
           /\ pty[id].killed /\ ~pty[id].exited
           /\ WriteInputReply(id).ok

\* An error returned as a value: a record {ok: false, error: <message>}.
IsErrorValue(reply) == DOMAIN reply = {"ok", "error"} /\ ~reply.ok

\* C17: when pty.spawn fails, startProcess returns an error value
\* (ok = false with an error message) and the call registers nothing and
\* changes no other session.
C17_SpawnFailureIsError ==
    /\ []IsErrorValue(StartProcessReply(TRUE))
    /\ [][\A cmd \in Cmds :
             StartProcess(cmd, TRUE) =>
                 sessions' = sessions /\ outputBuffer' = outputBuffer /\ pty' = pty]_vars

\* C18: when startProcess returns ok with a sessionId, that id is newly
\* registered with isRunning = true, exitCode and exitSignal unset and the
\* pid of the reply; the call has waited neither for output nor for the
\* exit: the buffer is empty and the child has not exited.
C18_StartRegistersRunning ==
    [][UNCHANGED vars \/ \A cmd \in Cmds :
          StartProcess(cmd, FALSE) =>
              LET reply == StartProcessReply(FALSE)
                  id == reply.sessionId
              IN  /\ reply.ok
                  /\ id \notin Registered /\ id \in Registered'
                  /\ sessions'[id].isRunning
                  /\ sessions'[id].exitCode = Null /\ sessions'[id].exitSignal = Null
                  /\ sessions'[id].pid = reply.pid
                  /\ sessions'[id].cmd = cmd
                  /\ outputBuffer'[id] = << >>
                  /\ ~pty'[id].exited]_vars

\* The session started last is registered and running with an empty buffer
\* while a session started before it already has output.
C18_Witness ==
    /\ uuidCount > 1
    /\ randomUUID(uuidCount) \in Registered
    /\ sessions[randomUUID(uuidCount)].isRunning
    /\ sessions[randomUUID(uuidCount)].pid = uuidCount
    /\ appended[randomUUID(uuidCount)] = << >>
    /\ Len(appended[randomUUID(1)]) > 0

\* C19: listSessions answers with exactly one summary for each registered
\* session and none for any other id (so an empty list when nothing is
\* registered), and each summary's isRunning, exitCode and outputLines are
\* the session's current flag, exit code and buffer length.
C19_ListMatchesRegistry ==
    LET list == ListSessionsReply.sessions
    IN  /\ ListSessionsReply.ok
        /\ Len(list) = Cardinality(Registered)
        /\ \A i \in 1..Len(list) : list[i].sessionId \in Registered
        /\ \A id \in Registered :
               \E i \in 1..Len(list) :
                   /\ list[i].sessionId = id
                   /\ list[i].isRunning = sessions[id].isRunning
                   /\ list[i].exitCode = sessions[id].exitCode
                   /\ list[i].outputLines = Len(outputBuffer[id])
        /\ Registered = {} => list = << >>

\* One session has been removed; the other is finished, not cleaned, has
\* lost an event to eviction and is the only one listed.
C19_Witness ==
    /\ Spawned \ Registered # {}
    /\ Len(ListSessionsReply.sessions) = 1
    /\ \E id \in Registered :
           /\ ~sessions[id].isRunning /\ sessions[id].exitCode # Null
           /\ Len(appended[id]) > Len(outputBuffer[id])
           /\ ListSessionsReply.sessions[1].outputLines = Len(outputBuffer[id])

\* C20, the states: as long as nothing has been cleaned up, listSessions has
\* one entry for each successful start, with pairwise different ids.
C20_AllListed ==
    LET list == ListSessionsReply.sessions
    IN  Registered = Spawned =>
            /\ Len(list) = uuidCount
            /\ \A i, j \in 1..Len(list) :
                   list[i].sessionId = list[j].sessionId => i = j

\* C20, the steps: the id a successful startProcess returns has not been
\* returned by an earlier start, whether that session is still registered
\* or has been removed, and it is registered in addition to the others.
C20_FreshId ==
    \A cmd \in Cmds :
        StartProcess(cmd, FALSE) =>
            /\ StartProcessReply(FALSE).sessionId \notin Spawned
            /\ Registered' = Registered \cup {StartProcessReply(FALSE).sessionId}
            /\ Cardinality(Registered') = Cardinality(Registered) + 1

\* C20: session ids are unique and never reused: two successful startProcess
\* calls return different ids, also when the earlier session has been
\* removed by cleanupSessions, and N starts without cleanup give N entries
\* with distinct ids in listSessions.
C20_IdsUnique == []C20_AllListed /\ [][UNCHANGED vars \/ C20_FreshId]_vars

\* The first session has been removed by cleanupSessions and the one started
\* last is registered under another id, fresh and running.
C20_Witness ==
    /\ uuidCount = MaxSessions
    /\ randomUUID(1) \notin Registered
    /\ randomUUID(uuidCount) \in Registered
    /\ randomUUID(uuidCount) # randomUUID(1)
    /\ sessions[randomUUID(uuidCount)].isRunning
    /\ ~pty[randomUUID(uuidCount)].killed
    /\ outputBuffer[randomUUID(uuidCount)] = << >>

\* A call that names the session id, or a callback of that session's PTY.
AddressedTo(id) ==
    \/ \E data \in InputData : WriteInput(id, data)
    \/ \E fromIndex \in FromIndexArgs : GetSessionOutput(id, fromIndex)
    \/ \E killThrows \in BOOLEAN : StopProcess(id, killThrows)
    \/ CleanupSessions(Given(id))
    \/ OnData(id)
    \/ \E outcome \in ExitOutcomes(pty[id]) : OnExit(id, outcome)

\* C21: an operation addressed to one session's id (writeInput,
\* getSessionOutput, stopProcess, cleanupSessions with that id), failing or
\* not, and a data or exit callback of that session leave every other
\* session's record, buffer and registry membership unchanged.
C21_SessionsIndependent ==
    [][UNCHANGED vars \/ \A id \in Spawned :
          \/ \A other \in Spawned \ {id} :
                 /\ (other \in Registered') = (other \in Registered)
                 /\ other \in Registered => sessions'[other] = sessions[other]
                 /\ outputBuffer'[other] = outputBuffer[other]
          \/ ~AddressedTo(id)]_vars

\* One session has been written to, stopped and has exited, while another,
\* with output of its own, is running as before.
C21_Witness ==
    \E id, other \in Registered :
        /\ id # other
        /\ pty[id].killed /\ pty[id].exited /\ Len(pty[id].written) > 0
        /\ sessions[other].isRunning /\ ~pty[other].killed
        /\ sessions[other].exitCode = Null
        /\ Len(outputBuffer[other]) > 0

\* C22: once the interrupt signal has been handled, kill() has been called
\* on the PTY handle of every session registered at that moment, also on
\* those after a handle whose kill() threw (every handle whose kill() did
\* not throw has been signalled), and process exit has been reached.
C22_ShutdownKillsAll ==
    process.sigint =>
        /\ process.exited
        /\ process.killAttempted = Registered
        /\ \A id \in Registered \ process.killThrew : pty[id].killed

\* The interrupt arrived with two sessions registered; kill() threw for the
\* one registered first and the other one was still signalled.
C22_Witness ==
    /\ process.sigint /\ process.exited
    /\ Cardinality(Registered) = 2
    /\ \E id, other \in Registered :
           /\ id[1] < other[1]
           /\ id \in process.killThrew /\ ~pty[id].killed
           /\ other \notin process.killThrew /\ pty[other].killed

\* What listSessions and getSessionOutput show of a finished session.
ExitVisible(id) ==
    LET reply == GetSessionOutputReply(id, 0)
    IN  /\ ~reply.isRunning
        /\ reply.exitCode # Null /\ reply.exitSignal # Null
        /\ HasExitEvent(reply.output)
        /\ \E i \in 1..Len(ListSessionsReply.sessions) :
               /\ ListSessionsReply.sessions[i].sessionId = id
               /\ ~ListSessionsReply.sessions[i].isRunning
               /\ ListSessionsReply.sessions[i].exitCode # Null

\* C23: a registered session whose child stopProcess has signalled, the
\* child exiting eventually, reaches a state in which listSessions and
\* getSessionOutput report isRunning = false, the exit fields and an exit
\* event in the buffer, unless it is removed from the registry before.
C23_StopLeadsToExit ==
    \A n \in 1..MaxSessions :
        (randomUUID(n) \in Registered /\ pty[randomUUID(n)].killed /\ ~pty[randomUUID(n)].exited)
            ~> (randomUUID(n) \notin Registered \/ ExitVisible(randomUUID(n)))

\* A session that was stopped while running has ended by the signal and is
\* reported as finished, exit event included.
C23_Witness ==
    \E id \in Registered :
        /\ pty[id].killed /\ pty[id].exited
        /\ sessions[id].exitSignal = Some(1)
        /\ ExitVisible(id)

\* C24: the full output history is preserved: getSessionOutput with
\* fromIndex 0 returns, at any later time and as often as asked, every
\* event captured for a session that is still registered.
C24_FullHistoryKept ==
    \A id \in Registered :
        GetSessionOutputReply(id, 0).output = appended[id]

\* C25: a wait-mode start whose deadline elapses before the exit callback
\* fires returns ok=false with an error naming the timeout, the child is sent
\* the termination signal stopProcess sends, the session stays registered as
\* it was, and the child is eventually no longer alive.
C25_Step ==
    UNCHANGED vars \/
    \A id \in Spawned :
        WaitTimeout(id) =>
            /\ ~pty[id].exited
            /\ WaitTimeoutReply.ok = FALSE
            /\ WaitTimeoutReply.error = "timeout"
            /\ pty'[id].killed
            /\ sessions' = sessions

C25_TimeoutKillsChild ==
    /\ [][C25_Step]_vars
    /\ \A n \in 1..MaxSessions :
           (randomUUID(n) \in DOMAIN waits /\ waits[randomUUID(n)] = "timeout")
               ~> (randomUUID(n) \in Spawned /\ pty[randomUUID(n)].exited)

C25_Witness ==
    \E id \in DOMAIN waits :
        /\ waits[id] = "timeout"
        /\ pty[id].killed
        /\ pty[id].exited
        /\ id \in Registered

\* C26: a wait-mode start whose child exits before the deadline returns only
\* once the exit callback has fired, with ok=true, the exit code and signal
\* the session records, and every output event captured for the session, the
\* exit event included.
C26_Step ==
    UNCHANGED vars \/
    \A id \in Spawned : \A outcome \in ExitOutcomes(pty[id]) :
        WaitExit(id, outcome) =>
            /\ pty'[id].exited
            /\ WaitExitReply(id, outcome).ok = TRUE
            /\ id \in Registered =>
                   /\ sessions'[id].exitCode = Some(WaitExitReply(id, outcome).exitCode)
                   /\ sessions'[id].exitSignal = Some(WaitExitReply(id, outcome).exitSignal)
                   /\ WaitExitReply(id, outcome).output = appended'[id]

ExitEvents(output) == Cardinality({i \in 1..Len(output) : output[i].type = "exit"})

\* C27: the exit transition happens at most once per session: no buffer ever
\* holds more than one exit event, and an exitCode and exitSignal that are
\* set stay as they are for as long as the session is registered, whatever
\* stopProcess calls and callbacks follow.
C27_Step ==
    UNCHANGED vars \/
    \A id \in Registered \cap DOMAIN sessions' :
        /\ sessions[id].exitCode # Null => sessions'[id].exitCode = sessions[id].exitCode
        /\ sessions[id].exitSignal # Null => sessions'[id].exitSignal = sessions[id].exitSignal

C27_ExitAtMostOnce ==
    /\ [](\A id \in Spawned : ExitEvents(outputBuffer[id]) <= 1 /\ ExitEvents(appended[id]) <= 1)
    /\ [][C27_Step]_vars

C27_Witness ==
    \E id \in Registered :
        /\ sessions[id].exitCode # Null
        /\ sessions[id].exitSignal # Null
        /\ ExitEvents(outputBuffer[id]) = 1
        /\ pty[id].killed

\* C28: the launch parameters and the process linkage of a session (cmd, pid
\* and the PTY handle, which stand for every field written at lines 57-66)
\* never change after creation: every step leaves them as they are for as
\* long as the session is registered, and the record's pid is that of the
\* handle spawned for it.
C28_Step ==
    UNCHANGED vars \/
    \A id \in Registered \cap DOMAIN sessions' :
        /\ sessions'[id].pid = sessions[id].pid
        /\ sessions'[id].cmd = sessions[id].cmd
        /\ pty'[id].pid = pty[id].pid

C28_LaunchParametersFixed ==
    /\ [](\A id \in Registered : id \in Spawned /\ sessions[id].pid = pty[id].pid)
    /\ [][C28_Step]_vars

C28_Witness ==
    \E id \in Registered :
        /\ sessions[id].exitCode # Null
        /\ pty[id].killed
        /\ Len(pty[id].written) > 0
        /\ Len(appended[id]) > 1
        /\ sessions[id].pid = pty[id].pid

\* C29, the replies: with a sessionId supplied, the empty string included,
\* cleanupSessions answers not found, still running, or one session cleaned.
C29_Replies ==
    \A sessionId \in SessionIdArgs :
        LET reply == CleanupSessionsReply(Given(sessionId))
        IN  IF sessionId \notin Registered THEN reply = NotFound
            ELSE IF sessions[sessionId].isRunning
              THEN reply = [ok |-> FALSE, error |-> "Session is still running"]
              ELSE reply = [ok |-> TRUE, cleaned |-> 1]

\* C29, the steps: with a sessionId supplied the call removes at most the
\* session with exactly that id; only a call without one removes every
\* finished session.
C29_Steps ==
    UNCHANGED vars \/
    /\ \A sessionId \in SessionIdArgs :
           CleanupSessions(Given(sessionId)) => Registered \ DOMAIN sessions' \subseteq {sessionId}
    /\ CleanupSessions(Undefined) => DOMAIN sessions' = Registered \ Finished

\* C29: cleanupSessions takes the remove-all-finished path only when no
\* sessionId is supplied; with any supplied value, the empty string included,
\* it removes at most the session with that id and otherwise fails with not
\* found or still running.
C29_RemoveAllOnlyWithoutId == []C29_Replies /\ [][C29_Steps]_vars

\* C30: writeInput on a registered session hands exactly the given data to
\* that session's PTY, as one write after those of the earlier calls, and
\* changes nothing else: no other PTY, no session record (isRunning and the
\* exit fields included), no buffer and not the registry.
C30_Step ==
    pty' = pty \/
    \A id \in Registered : \A data \in InputData :
        WriteInput(id, data) =>
            /\ pty'[id].written = pty[id].written \o <<data>>
            /\ pty'[id].killed = pty[id].killed
            /\ pty'[id].exited = pty[id].exited
            /\ \A other \in Spawned \ {id} : pty'[other] = pty[other]
            /\ sessions' = sessions
            /\ outputBuffer' = outputBuffer
            /\ WriteInputReply(id) = [ok |-> TRUE]

C31_RemovedOnlyAfterExit ==
    [][UNCHANGED vars \/ \A id \in Registered :
          id \notin DOMAIN sessions' => pty[id].exited]_vars

\* C32: once getSessionOutput or listSessions reports isRunning = false for
\* a session, its buffer no longer changes: for as long as the session is
\* registered, getSessionOutput returns the same totalLines and the same
\* events.
C32_FrozenOnceNotRunning ==
    [][UNCHANGED vars \/ \A id \in Registered \cap DOMAIN sessions' :
          (~GetSessionOutputReply(id, 0).isRunning \/ ~Summary(id).isRunning) =>
              /\ GetSessionOutputReply(id, 0).totalLines' = GetSessionOutputReply(id, 0).totalLines
              /\ GetSessionOutputReply(id, 0).output' = GetSessionOutputReply(id, 0).output]_vars

\* C33: a session id that has been removed never comes back into the
\* registry, and a data or exit callback of a removed session changes no
\* registered session's record or buffer.
C33_Step ==
    UNCHANGED vars \/
    \A id \in Spawned \ Registered :
        /\ id \notin DOMAIN sessions'
        /\ (OnData(id) \/ \E outcome \in ExitOutcomes(pty[id]) : OnExit(id, outcome)) =>
               /\ sessions' = sessions
               /\ \A other \in Registered : outputBuffer'[other] = outputBuffer[other]

C33_RemovedStaysRemoved == [][C33_Step]_vars

\* A removed session whose child went on emitting and then exited, with
\* nothing recorded of the exit, next to a registered session with output.
C33_Witness ==
    /\ \E id \in Spawned \ Registered :
           /\ pty[id].exited
           /\ ~HasExitEvent(appended[id])
           /\ Len(appended[id]) > 0
    /\ \E other \in Registered : Len(outputBuffer[other]) > 0

\* C34: in every reachable state a registered session whose exit callback
\* has fired (the PTY has exited, an exit code is recorded or the exit event
\* is in the buffer) has isRunning = false.
C34_ExitedIsNotRunning ==
    \A id \in Registered :
        (pty[id].exited \/ sessions[id].exitCode # Null \/ HasExitEvent(outputBuffer[id]))
            => ~sessions[id].isRunning

\* A child that ended by itself, never signalled: the exit callback alone
\* has made the session not running.
C34_Witness ==
    \E id \in Registered :
        /\ pty[id].exited /\ ~pty[id].killed
        /\ sessions[id].exitCode # Null
        /\ HasExitEvent(outputBuffer[id])
        /\ ~sessions[id].isRunning

\* C35: isRunning is monotonic: a registered session that is not running
\* is not running after any step that keeps it registered, and its id, once
\* removed, is not registered again.
C35_Step ==
    UNCHANGED vars \/
    /\ \A id \in Registered \cap DOMAIN sessions' :
           ~sessions[id].isRunning => ~sessions'[id].isRunning
    /\ \A id \in Spawned \ Registered : id \notin DOMAIN sessions'

C35_IsRunningMonotonic == [][C35_Step]_vars

\* A session stopped while its child is alive and has output: stop, data and
\* exit callbacks and further stops can all follow.
C35_Witness ==
    \E id \in Registered :
        /\ ~sessions[id].isRunning
        /\ pty[id].killed /\ ~pty[id].exited
        /\ Len(outputBuffer[id]) > 0

\* C36, the reply: when kill() throws, stopProcess on a registered session
\* answers ok = false with an error text and no killed field.
C36_Reply ==
    \A id \in Registered :
        LET reply == StopProcessReply(id, TRUE)
        IN  /\ DOMAIN reply = {"ok", "error"}
            /\ reply.ok = FALSE

\* C36, the step: such a call leaves isRunning, the exit fields, the buffer,
\* the PTY and the registry as they were.
C36_Step ==
    UNCHANGED vars \/
    \A id \in Registered :
        StopProcess(id, TRUE) =>
            /\ sessions' = sessions
            /\ outputBuffer' = outputBuffer
            /\ pty' = pty

\* C36: a stopProcess whose kill() throws returns ok = false with the error
\* and without killed = true, and changes nothing of the session.
C36_KillThrowChangesNothing == []C36_Reply /\ [][C36_Step]_vars

\* A running session with output, never signalled: a stopProcess whose
\* kill() throws is answered with the error here.
C36_Witness ==
    \E id \in Registered :
        /\ sessions[id].isRunning
        /\ ~pty[id].killed
        /\ Len(outputBuffer[id]) > 0
        /\ ~StopProcessReply(id, TRUE).ok
        /\ StopProcessReply(id, FALSE).ok

\* The last element of a non-empty sequence.
Last(s) == s[Len(s)]

\* C37, the state: what a registered session's buffer holds is, up to the
\* capacity, everything its child has emitted from the first event on.
C37_NothingLost ==
    \A id \in Registered :
        Len(appended[id]) <= maxBufferSize => outputBuffer[id] = appended[id]

\* C37, the steps: a handle appears together with its registered, running
\* session and an empty buffer, so no callback runs before registration; a
\* data callback of a registered session puts the chunk at the end of its
\* buffer, and its exit callback puts the exit event there and records the
\* exit in the session.
C37_Step ==
    UNCHANGED vars \/
    /\ \A id \in DOMAIN pty' \ Spawned :
           /\ id \in DOMAIN sessions'
           /\ sessions'[id].isRunning
           /\ outputBuffer'[id] = << >>
    /\ \A id \in Registered :
           /\ OnData(id) =>
                  /\ Last(outputBuffer'[id]) = StdoutEvent(Chunks(id) + 1)
                  /\ Last(appended'[id]) = Last(outputBuffer'[id])
           /\ \A outcome \in ExitOutcomes(pty[id]) :
                  OnExit(id, outcome) =>
                      /\ Last(outputBuffer'[id]) = ExitEvent(outcome.exitCode, outcome.signal)
                      /\ sessions'[id].exitCode = Some(outcome.exitCode)
                      /\ sessions'[id].exitSignal = Some(outcome.signal)
                      /\ ~sessions'[id].isRunning

\* C37: no event is lost between spawn and registration: every chunk and
\* the exit notification the child emits after a successful spawn is applied
\* to the session's buffer and record.
C37_NoEventLostAtStart == []C37_NothingLost /\ [][C37_Step]_vars

\* A session whose child emitted one chunk and exited: the buffer holds
\* exactly these two events and the record shows the exit.
C37_Witness ==
    \E id \in Registered :
        /\ Len(outputBuffer[id]) = 2
        /\ outputBuffer[id][1] = StdoutEvent(1)
        /\ outputBuffer[id][2].type = "exit"
        /\ outputBuffer[id] = appended[id]
        /\ sessions[id].exitCode # Null

\* A step that some getSessionOutput or listSessions call explains.
ReadStep ==
    \/ ListSessions
    \/ \E sessionId \in SessionIdArgs : \E fromIndex \in FromIndexArgs :
           GetSessionOutput(sessionId, fromIndex)

\* C38: getSessionOutput and listSessions are read-only: a call changes no
\* session record, no buffer, no PTY and not the registry, and every call
\* made right after it, with whatever arguments, is answered as it would
\* have been before it, so two consecutive calls return identical results.
C38_Step ==
    \/ UNCHANGED vars
    \/ ~ReadStep
    \/ /\ sessions' = sessions /\ outputBuffer' = outputBuffer /\ pty' = pty
       /\ ListSessionsReply' = ListSessionsReply
       /\ \A sessionId \in SessionIdArgs : \A fromIndex \in FromIndexArgs :
              GetSessionOutputReply(sessionId, fromIndex)' = GetSessionOutputReply(sessionId, fromIndex)

C38_ReadsChangeNothing == [][C38_Step]_vars

\* Two sessions are listed and one of them has events past index 1, so a
\* read returns a proper, non-empty part of the buffer.
C38_Witness ==
    /\ Len(ListSessionsReply.sessions) = 2
    /\ \E id \in Registered :
           /\ Len(GetSessionOutputReply(id, 1).output) >= 1
           /\ GetSessionOutputReply(id, 1).totalLines = Len(outputBuffer[id])

====
